---------------------------- MODULE Spec2Model ----------------------------
(***************************************************************************)
(* AudionixConnect: a multicast RTP audio stream is received, its payload  *)
(* is decoded to normalized samples, re-encoded and sent on as unicast RTP.*)
(*                                                                         *)
(* Bytes are integers 0..255 and byte strings are sequences of bytes.      *)
(* TLC's integers are 32-bit signed, so an unsigned 32-bit value (RTP      *)
(* timestamp, ssrc, csrc) is kept as the pair <<high 16 bits, low 16 bits>>*)
(* and its arithmetic is done on the halves: that is arithmetic mod 2^32.  *)
(***************************************************************************)
EXTENDS Integers, Sequences, FiniteSets, TLC

VARIABLES
    \* ---- configuration and components (AudionixConnect.initialize_components)
    encoding,        \* config.output.encoding: "pcm" | "opus"
    has_opus,        \* OpusProcessor.has_opus (FALSE for a PCMProcessor)
    \* ---- RTPTransmitter
    tx_running,      \* transmitter.running
    tx_socket,       \* transmitter.socket: "none" | "open" | "closed"
    sequence_number, \* transmitter.sequence_number, 0..65535
    timestamp,       \* transmitter.timestamp, <<high, low>>
    ssrc,            \* transmitter.ssrc, <<high, low>>
    payload_type,    \* transmitter.payload_type
    \* ---- StreamReceiver
    rx_running,      \* receiver.running
    rx_socket,       \* receiver.socket: "none" | "open" | "closed"
    \* ---- AudionixConnect
    app_running,     \* app.running
    stats,           \* app.stats: packets_received, packets_sent, errors
    audio_data,      \* handle_packet's audio_data for the latest packet
    \* ---- the data-path thread (AudionixConnect.start -> receive loop)
    dp_pc,           \* "idle" | "check" | "recv" | "handle" | "count" |
                     \* "returned" | "raised" | "off"
    pending,         \* the datagram recvfrom returned, not yet processed
    \* ---- history
    delivered,       \* datagrams recvfrom has returned, in order
    handled,         \* packets passed to handle_packet, in order
    wire,            \* datagrams sendto has sent: [src, pkt, payload], src
                     \* the index in delivered of the datagram that produced
                     \* pkt (0 if none), payload the bytes given to send
    send_false,      \* send calls that returned False since the stats reset
    tx_init,         \* the transmitter's sequence number and timestamp at
                     \* construction
    rx_stopped,      \* receiver.stop() has been called on this instance
    \* ---- the statistics thread (AudionixConnect._report_stats)
    st_pc,           \* the statistics thread: "none" | "check" | "print"
    stats_seen,      \* <<the counters the statistics thread printed last>>
    stats_writers,   \* the threads that have written a counter
    stats_readers,   \* the threads that have read the counters
    handed,          \* packets given to handle_packet since the last start
    \* ---- codec round trip (RTPPacket / create_rtp_packet as pure functions)
    rtp_pc,        \* "input" | "decoded" | "rejected" | "encoded" | "done" | "off"
    rtp_buf,       \* the byte buffer given to RTPPacket(...)
    rtp_pkt,       \* the result of decoding rtp_buf
    rtp_out,       \* the packet rebuilt by create_rtp_packet from rtp_pkt
    rtp_back,      \* the result of decoding rtp_out
    \* ---- PCM transcoding (PCMProcessor as pure functions)
    pcm_pc,        \* "payload" | "frames" | "decoded" | "off"
    pcm_payload,   \* bytes given to process_packet / made by prepare_payload
    pcm_frames,    \* frame buffer: a sequence of frames of CHANNELS samples
    pcm_src,       \* the frame buffer that prepare_payload encoded, <<>> if none
    \* ---- configuration loading and the component factories
    cfg_pc,        \* "raw" | "valid" | "invalid" | "built" | "factory" | "off"
    cfg_raw,       \* the configuration data given to Config(**config_data)
    cfg_errors,    \* the fields whose validation raised
    made,          \* what a factory call returned: [kind, name, result]
    \* ---- calls made directly on a transmitter and a receiver
    tx_call,       \* the latest call on the transmitter and what it did
    rx_call        \* the latest call on the receiver and what it did

cfgVars == <<encoding, has_opus>>
txVars  == <<tx_running, tx_socket, sequence_number, timestamp, ssrc, payload_type>>
rxVars  == <<rx_running, rx_socket>>
appVars == <<app_running, stats, audio_data>>
dpVars  == <<dp_pc, pending>>
histVars == <<delivered, handled, wire, send_false, tx_init, rx_stopped>>
statVars == <<st_pc, stats_seen, stats_writers, stats_readers, handed>>
sysVars == <<cfgVars, txVars, rxVars, appVars, dpVars, histVars, statVars>>
rtpVars == <<rtp_pc, rtp_buf, rtp_pkt, rtp_out, rtp_back>>
pcmVars == <<pcm_pc, pcm_payload, pcm_frames, pcm_src>>
valVars == <<cfg_pc, cfg_raw, cfg_errors, made>>
callVars == <<tx_call, rx_call>>

vars == <<sysVars, rtpVars, pcmVars, valVars, callVars>>

\* a part of the model that a specification does not exercise stays here
RtpOff ==
    /\ rtp_pc = "off"
    /\ rtp_buf = <<>>
    /\ rtp_pkt = [ok |-> FALSE]
    /\ rtp_out = <<>>
    /\ rtp_back = [ok |-> FALSE]

PcmOff ==
    /\ pcm_pc = "off"
    /\ pcm_payload = <<>>
    /\ pcm_frames = <<>>
    /\ pcm_src = <<>>

SysOff ==
    /\ encoding = "pcm" /\ has_opus = FALSE
    /\ tx_running = FALSE /\ tx_socket = "none"
    /\ sequence_number = 0 /\ timestamp = <<0, 0>> /\ ssrc = <<0, 0>>
    /\ payload_type = 97
    /\ rx_running = FALSE /\ rx_socket = "none"
    /\ app_running = FALSE
    /\ stats = [packets_received |-> 0, packets_sent |-> 0, errors |-> 0]
    /\ audio_data = <<>>
    /\ dp_pc = "off" /\ pending = <<>>
    /\ delivered = <<>> /\ handled = <<>> /\ wire = <<>>
    /\ send_false = 0
    /\ tx_init = [sequence_number |-> 0, timestamp |-> <<0, 0>>]
    /\ rx_stopped = FALSE
    /\ st_pc = "none" /\ stats_seen = <<>> /\ handed = 0
    /\ stats_writers = {} /\ stats_readers = {}

NoCall == [op |-> "none", prev |-> "none", raised |-> FALSE, warned |-> FALSE,
           changed |-> FALSE, result |-> FALSE, sendto_ok |-> FALSE,
           was_running |-> FALSE, payload |-> <<>>, sent |-> <<>>]

ValOff ==
    /\ cfg_pc = "off"
    /\ cfg_raw = <<>>
    /\ cfg_errors = {}
    /\ made = <<>>

CallOff ==
    /\ tx_call = NoCall
    /\ rx_call = NoCall

---------------------------------------------------------------------------
(* Bytes, slices, bit operations                                           *)

\* Python's s[a:b] with 0-based, end-exclusive, clamped indices.
Slice(s, a, b) ==
    LET lo == IF a < 0 THEN 0 ELSE a
        hi == IF b > Len(s) THEN Len(s) ELSE b
    IN  IF lo >= hi THEN <<>> ELSE [i \in 1..(hi - lo) |-> s[lo + i]]

\* Python's s[a:]
SliceFrom(s, a) == Slice(s, a, Len(s))

\* bitwise or of two non-negative integers
RECURSIVE BitOr(_, _)
BitOr(a, b) ==
    IF a = 0 THEN b
    ELSE IF b = 0 THEN a
    ELSE (IF (a % 2 = 1) \/ (b % 2 = 1) THEN 1 ELSE 0)
         + 2 * BitOr(a \div 2, b \div 2)

\* struct.unpack('!H', b)[0]: big-endian unsigned 16 bits
UnpackH(b) == b[1] * 256 + b[2]

\* struct.unpack('!I', b)[0]: big-endian unsigned 32 bits, as <<high, low>>
UnpackI(b) == <<b[1] * 256 + b[2], b[3] * 256 + b[4]>>

\* a builder that writes the 16-bit field low byte first
PackH_LittleEndian(v) == <<v % 256, v \div 256>>

\* struct.pack('!H', v)
PackH(v) == <<v \div 256, v % 256>>

\* struct.pack('!I', v) of v = <<high, low>>
PackI(v) == <<v[1] \div 256, v[1] % 256, v[2] \div 256, v[2] % 256>>

\* (v + k) % 2^32 for v = <<high, low>> and 0 <= k < 2^31 - 2^16
Add32(v, k) ==
    LET low  == v[2] + (k % 65536)
        high == v[1] + (k \div 65536) + (low \div 65536)
    IN  <<high % 65536, low % 65536>>

---------------------------------------------------------------------------
(* receiver.py: RTPPacket                                                  *)

\* a decoder that reads no CSRC identifier
CsrcList_Ignored(packet_data, csrc_count) == <<>>

\* the CSRC identifiers RTPPacket.__init__ collects: entry i is read only
\* when its four bytes lie inside the buffer
CsrcList(packet_data, csrc_count) ==
    LET present == {i \in 0..(csrc_count - 1) :
                        Len(packet_data) >= (12 + i * 4) + 4}
        idx     == [j \in 1..Cardinality(present) |->
                        CHOOSE i \in present :
                            Cardinality({k \in present : k < i}) = j - 1]
    IN  [j \in 1..Cardinality(present) |->
            UnpackI(Slice(packet_data, 12 + idx[j] * 4, 12 + idx[j] * 4 + 4))]

\* a length check that is off by one
RtpMinLen_OffByOne(packet_data) == Len(packet_data) <= 12

\* len(packet_data) < 12: too short to be an RTP packet
RtpMinLen(packet_data) == Len(packet_data) < 12

\* RTPPacket(packet_data): ok = FALSE stands for the ValueError raised
RTPPacket(packet_data) ==
    IF RtpMinLen(packet_data)
    THEN [ok |-> FALSE]
    ELSE LET header     == Slice(packet_data, 0, 12)
             csrc_count == header[1] % 16
         IN  [ok              |-> TRUE,
              version         |-> (header[1] \div 64) % 4,
              padding         |-> (header[1] \div 32) % 2,
              extension       |-> (header[1] \div 16) % 2,
              csrc_count      |-> csrc_count,
              marker          |-> (header[2] \div 128) % 2,
              payload_type    |-> header[2] % 128,
              sequence_number |-> UnpackH(Slice(header, 2, 4)),
              timestamp       |-> UnpackI(Slice(header, 4, 8)),
              ssrc            |-> UnpackI(Slice(header, 8, 12)),
              csrc            |-> CsrcList(packet_data, csrc_count),
              payload         |-> SliceFrom(packet_data, 12 + (csrc_count * 4))]

---------------------------------------------------------------------------
(* transmitter.py: RTPTransmitter.create_rtp_packet (the bytes it builds)  *)

\* a second byte whose marker is shifted one bit short
SecondByte_MarkerShift6(marker, ptype) == BitOr(marker * 64, ptype)

\* second_byte = (marker << 7) | self.payload_type
SecondByte(marker, ptype) == BitOr(marker * 128, ptype)

\* a first header byte that announces one CSRC identifier
FirstByte_CsrcCountOne == BitOr(BitOr(BitOr(2 * 64, 0 * 32), 0 * 16), 1)

\* first header byte: version 2, padding 0, extension 0, CSRC count 0
FirstByte == BitOr(BitOr(BitOr(2 * 64, 0 * 32), 0 * 16), 0)

\* struct.pack('!BBHII', first_byte, second_byte, seq, ts, sender)
RtpHeader(ptype, seqno, tstamp, sender, marker) ==
    <<FirstByte, SecondByte(marker, ptype)>>
        \o PackH(seqno) \o PackI(tstamp) \o PackI(sender)

\* header + payload
create_rtp_packet(ptype, seqno, tstamp, sender, payload, marker) ==
    RtpHeader(ptype, seqno, tstamp, sender, marker) \o payload

---------------------------------------------------------------------------
(* processor.py: PCMProcessor                                              *)
(*                                                                         *)
(* A normalized float sample x is kept as the integer k with x = k / 2^23: *)
(* every value process_packet produces has that form and float32 holds it  *)
(* exactly (|k| < 2^24).                                                   *)

BITS_PER_SAMPLE == 24
CHANNELS == 2

\* self.bytes_per_sample: bits // 8, rounded up
bytes_per_sample ==
    (BITS_PER_SAMPLE \div 8) + (IF BITS_PER_SAMPLE % 8 # 0 THEN 1 ELSE 0)

\* 2^(8*bytes_per_sample - 1), the divisor of process_packet
FullScale == 2 ^ (8 * bytes_per_sample - 1)

\* int.from_bytes(b, byteorder='little', signed=True) of a 4-byte string
FromBytesLittleSigned(b) ==
    LET low == b[1] + 256 * b[2] + 65536 * b[3]
    IN  IF b[4] >= 128 THEN (b[4] - 256) * 16777216 + low
        ELSE b[4] * 16777216 + low

\* process_packet, one sample: the 3 bytes are extended by a zero byte and
\* read as a signed 32-bit little-endian integer (the numerator of the sample)
DecodeSample(sample_bytes) == FromBytesLittleSigned(sample_bytes \o <<0>>)

\* a process_packet that gives up on a payload with a partial last frame
process_packet_RejectsPartial(payload) ==
    LET bytes_per_frame == bytes_per_sample * CHANNELS
        num_frames      == IF Len(payload) % bytes_per_frame # 0 THEN 0
                           ELSE Len(payload) \div bytes_per_frame
    IN  [i \in 1..num_frames |->
            [c \in 1..CHANNELS |->
                LET offset == (i - 1) * bytes_per_frame + (c - 1) * bytes_per_sample
                IN  DecodeSample(Slice(payload, offset, offset + bytes_per_sample))]]

\* process_packet: num_frames = len // bytes_per_frame complete frames
process_packet(payload) ==
    LET bytes_per_frame == bytes_per_sample * CHANNELS
        num_frames      == Len(payload) \div bytes_per_frame
    IN  [i \in 1..num_frames |->
            [c \in 1..CHANNELS |->
                LET offset == (i - 1) * bytes_per_frame + (c - 1) * bytes_per_sample
                IN  DecodeSample(Slice(payload, offset, offset + bytes_per_sample))]]

\* prepare_payload, scaling: (x * (2^(bits-1) - 1)).astype(int32) for the
\* float32 x = k / 2^23.  The exact product is k - k/2^23.  For |k| <= 2^23 it
\* lies in [|k|-1, |k|) and float32 rounding never reaches |k|, so truncation
\* gives |k|-1.  For 2^23 < |k| < 2^24 float32 has spacing 1 there and the
\* product rounds (ties to even) to |k|-1 below 3*2^22 and to |k|-2 from there.
ScaleToInt(k) ==
    LET a   == IF k < 0 THEN -k ELSE k
        mag == IF a = 0 THEN 0
               ELSE IF a < 3 * 4194304 THEN a - 1
               ELSE a - 2
    IN  IF k < 0 THEN -mag ELSE mag

\* prepare_payload, one sample: sample.tobytes()[:bytes_per_sample], the low
\* bytes of the int32 in two's complement, little-endian
SampleBytes(n) ==
    LET u == n % 16777216
    IN  <<u % 256, (u \div 256) % 256, u \div 65536>>

RECURSIVE Concat(_)
Concat(ss) == IF ss = <<>> THEN <<>> ELSE Head(ss) \o Concat(Tail(ss))

\* prepare_payload: the samples' bytes, frame by frame, channel by channel
prepare_payload(frames) ==
    Concat([i \in 1..Len(frames) |->
               Concat([c \in 1..Len(frames[i]) |->
                          SampleBytes(ScaleToInt(frames[i][c]))])])

---------------------------------------------------------------------------
(* PCM transcoding on its own: decode a payload, or encode a frame buffer  *)
(* and decode the bytes                                                    *)

PcmTriples == {<<0, 0, 0>>, <<1, 0, 0>>, <<255, 255, 127>>, <<0, 0, 128>>,
               <<255, 255, 255>>, <<52, 18, 200>>}
PcmTails   == {<<>>, <<7, 7>>, <<1, 2, 3, 4, 5>>}
PcmPayloads ==
    {t1 \o t2 \o tail : t1 \in PcmTriples, t2 \in PcmTriples, tail \in PcmTails}
    \cup PcmTails
    \cup {<<1, 0, 0, 2, 0, 0, 255, 255, 255, 0, 0, 128>>}

\* normalized samples in [-1.0, 1.0], as numerators over 2^23
PcmSamples == {-8388608, -8388607, -4194304, -2, -1, 0, 1, 2, 4194304,
               8388607, 8388608}
PcmBuffers == {<<<<k1, k2>>>> : k1 \in PcmSamples, k2 \in PcmSamples}
               \cup {<<<<1, -1>>, <<8388607, -8388607>>>>}

PcmInit ==
    \/ /\ pcm_pc = "payload"
       /\ pcm_payload \in PcmPayloads
       /\ pcm_frames = <<>>
       /\ pcm_src = <<>>
    \/ /\ pcm_pc = "frames"
       /\ pcm_payload = <<>>
       /\ pcm_frames \in PcmBuffers
       /\ pcm_src = <<>>

\* PCMProcessor.prepare_payload(pcm_frames)
PcmEncode ==
    /\ pcm_pc = "frames"
    /\ pcm_pc' = "payload"
    /\ pcm_payload' = prepare_payload(pcm_frames)
    /\ pcm_src' = pcm_frames
    /\ pcm_frames' = <<>>
    /\ UNCHANGED <<sysVars, rtpVars, valVars, callVars>>

\* PCMProcessor.process_packet(pcm_payload)
PcmDecode ==
    /\ pcm_pc = "payload"
    /\ pcm_pc' = "decoded"
    /\ pcm_frames' = process_packet(pcm_payload)
    /\ UNCHANGED <<pcm_payload, pcm_src>>
    /\ UNCHANGED <<sysVars, rtpVars, valVars, callVars>>

PcmNext == PcmEncode \/ PcmDecode

InitPCM == PcmInit /\ RtpOff /\ SysOff /\ ValOff /\ CallOff

SpecPCM == InitPCM /\ [][PcmNext]_vars

---------------------------------------------------------------------------
(* Codec round trip: decode a buffer, rebuild it, decode the result        *)

\* header bytes the buffers are drawn from
RtpFirstBytes  == {128, 129, 143, 0, 255}
RtpSecondBytes == {0, 97, 127, 128, 226, 255}
RtpSeqBytes    == {<<0, 0>>, <<255, 255>>, <<1, 2>>}
RtpWordBytes   == {<<0, 0, 0, 0>>, <<255, 255, 255, 255>>, <<1, 2, 3, 4>>}
RtpTails       == {<<>>, <<9, 8, 7>>, <<1, 0, 0, 255, 255, 255>>,
                   <<0, 0, 0, 1, 5, 6, 7, 8, 200>>}

RtpLongBuffers ==
    {<<b1, b2>> \o s \o t \o <<222, 173, 190, 239>> \o tail :
        b1 \in RtpFirstBytes, b2 \in RtpSecondBytes, s \in RtpSeqBytes,
        t \in RtpWordBytes, tail \in RtpTails}

RtpShortBuffers ==
    {Slice(<<128, 225, 1, 2, 3, 4, 5, 6, 7, 8, 9>>, 0, n) : n \in 0..11}

RtpBuffers == RtpLongBuffers \cup RtpShortBuffers

RtpInit ==
    /\ rtp_pc = "input"
    /\ rtp_buf \in RtpBuffers
    /\ rtp_pkt = [ok |-> FALSE]
    /\ rtp_out = <<>>
    /\ rtp_back = [ok |-> FALSE]

\* RTPPacket(rtp_buf) raises
RtpReject ==
    /\ rtp_pc = "input"
    /\ ~RTPPacket(rtp_buf).ok
    /\ rtp_pc' = "rejected"
    /\ rtp_pkt' = RTPPacket(rtp_buf)
    /\ UNCHANGED <<rtp_buf, rtp_out, rtp_back>>
    /\ UNCHANGED <<sysVars, pcmVars, valVars, callVars>>

\* RTPPacket(rtp_buf) returns a packet
RtpDecode ==
    /\ rtp_pc = "input"
    /\ RTPPacket(rtp_buf).ok
    /\ rtp_pc' = "decoded"
    /\ rtp_pkt' = RTPPacket(rtp_buf)
    /\ UNCHANGED <<rtp_buf, rtp_out, rtp_back>>
    /\ UNCHANGED <<sysVars, pcmVars, valVars, callVars>>

\* a transmitter holding the decoded fields builds the packet again
RtpEncode ==
    /\ rtp_pc = "decoded"
    /\ rtp_pc' = "encoded"
    /\ rtp_out' = create_rtp_packet(rtp_pkt.payload_type, rtp_pkt.sequence_number,
                                    rtp_pkt.timestamp, rtp_pkt.ssrc,
                                    rtp_pkt.payload, rtp_pkt.marker)
    /\ UNCHANGED <<rtp_buf, rtp_pkt, rtp_back>>
    /\ UNCHANGED <<sysVars, pcmVars, valVars, callVars>>

\* the rebuilt packet is decoded
RtpDecodeBack ==
    /\ rtp_pc = "encoded"
    /\ rtp_pc' = "done"
    /\ rtp_back' = RTPPacket(rtp_out)
    /\ UNCHANGED <<rtp_buf, rtp_pkt, rtp_out>>
    /\ UNCHANGED <<sysVars, pcmVars, valVars, callVars>>

RtpNext == RtpReject \/ RtpDecode \/ RtpEncode \/ RtpDecodeBack

InitRTP == RtpInit /\ PcmOff /\ SysOff /\ ValOff /\ CallOff

SpecRTP == InitRTP /\ [][RtpNext]_vars

---------------------------------------------------------------------------
(* transmitter.py: RTPTransmitter state changes                            *)

\* samples per 20 ms frame at 48 kHz, the timestamp increment
SamplesPerFrame == 960

\* a transmitter whose sequence number never moves
NextSequenceNumber_Stuck(seqno) == seqno

\* self.sequence_number = (self.sequence_number + 1) % 65536
NextSequenceNumber(seqno) == (seqno + 1) % 65536

\* self.timestamp = (self.timestamp + 960) % (2**32)
NextTimestamp(tstamp) == Add32(tstamp, SamplesPerFrame)

\* a send that does not look at the running flag or the socket
send_Unguarded(payload, marker, sendto_ok) ==
    LET packet == create_rtp_packet(payload_type, sequence_number,
                                    timestamp, ssrc, payload, marker)
    IN  [result |-> sendto_ok, raised |-> FALSE,
         seqno  |-> NextSequenceNumber(sequence_number),
         tstamp |-> NextTimestamp(timestamp),
         sent   |-> IF sendto_ok THEN <<packet>> ELSE <<>>]

\* RTPTransmitter.send(payload, marker); sendto_ok is the outcome of
\* socket.sendto.  result: the value returned; raised: an exception left the
\* call (the try block catches every Exception, so none does); seqno, tstamp:
\* the counters after the call; sent: the datagram given to the network, if
\* any.
send(payload, marker, sendto_ok) ==
    IF ~tx_running \/ tx_socket = "none"
    THEN [result |-> FALSE, raised |-> FALSE,
          seqno |-> sequence_number, tstamp |-> timestamp, sent |-> <<>>]
    ELSE LET packet == create_rtp_packet(payload_type, sequence_number,
                                         timestamp, ssrc, payload, marker)
         IN  [result |-> sendto_ok, raised |-> FALSE,
              seqno  |-> NextSequenceNumber(sequence_number),
              tstamp |-> NextTimestamp(timestamp),
              sent   |-> IF sendto_ok THEN <<packet>> ELSE <<>>]

\* RTPTransmitter.start(); socket_ok is the outcome of socket.socket(...)
TransmitterStart(socket_ok) ==
    IF tx_running
    THEN UNCHANGED <<tx_running, tx_socket>>
    ELSE /\ tx_running' = socket_ok
         /\ tx_socket' = IF socket_ok THEN "open" ELSE tx_socket

\* RTPTransmitter.stop()
TransmitterStop ==
    /\ tx_running' = FALSE
    /\ tx_socket' = IF tx_socket = "none" THEN "none" ELSE "closed"

\* PCMTransmitter / OpusTransmitter: the payload type of create_transmitter
TransmitterPayloadType(enc) == IF enc = "pcm" THEN 97 ELSE 98

---------------------------------------------------------------------------
(* receiver.py: StreamReceiver state changes                               *)

\* a stop that closes the socket but leaves the running flag alone
ReceiverStop_KeepsRunning ==
    /\ rx_running' = rx_running
    /\ rx_socket' = IF rx_socket = "none" THEN "none" ELSE "closed"
    /\ rx_stopped' = TRUE

\* StreamReceiver.stop()
ReceiverStop ==
    /\ rx_running' = FALSE
    /\ rx_socket' = IF rx_socket = "none" THEN "none" ELSE "closed"
    /\ rx_stopped' = TRUE

---------------------------------------------------------------------------
(* processor.py: OpusProcessor and the processor create_processor selects  *)
(*                                                                         *)
(* The Opus library is external: a decode or encode call either raises or  *)
(* returns bytes; both outcomes are drawn from these sets.                 *)

OpusDecoderOut == {[raised |-> TRUE,  data |-> <<>>],
                   [raised |-> FALSE, data |-> <<16, 0, 0, 32, 0, 0>>]}
OpusEncoderOut == {[raised |-> TRUE,  data |-> <<>>],
                   [raised |-> FALSE, data |-> <<79, 112>>]}

\* a process_packet that calls the decoder without looking at has_opus
opus_process_packet_IgnoresHasOpus(payload, dec) ==
    IF dec.raised THEN <<>>
    ELSE process_packet(dec.data)

\* OpusProcessor.process_packet(payload); dec: what decoder.decode does
opus_process_packet(payload, dec) ==
    IF ~has_opus THEN <<>>
    ELSE IF dec.raised THEN <<>>
    ELSE process_packet(dec.data)

\* OpusProcessor.prepare_payload(frames); enc: what encoder.encode does
opus_prepare_payload(frames, enc) ==
    IF ~has_opus THEN <<>>
    ELSE IF enc.raised THEN <<>>
    ELSE enc.data

\* self.processor.process_packet: the processor is created from the output
\* encoding (initialize_components)
ProcessorDecode(payload, dec) ==
    IF encoding = "pcm" THEN process_packet(payload)
    ELSE opus_process_packet(payload, dec)

\* self.processor.prepare_payload
ProcessorEncode(frames, enc) ==
    IF encoding = "pcm" THEN prepare_payload(frames)
    ELSE opus_prepare_payload(frames, enc)

---------------------------------------------------------------------------
(* The running system: app.py, with the receive loop of receiver.py        *)

MaxPackets == 3      \* datagrams received in one run of the model

\* a 12-byte RTP header as received from the network
InHeader(first, second) ==
    <<first, second, 0, 7, 0, 0, 3, 192, 17, 34, 51, 68>>

Datagrams ==
    { <<128, 97, 0, 1>>,                                       \* too short
      InHeader(128, 96) \o <<1, 0, 0, 255, 255, 255>>,         \* marker 0
      InHeader(128, 255) \o <<2, 0, 0, 0, 0, 64, 9, 9>>,       \* marker 1
      InHeader(128, 128) }                                     \* no payload

\* the random values RTPTransmitter.__init__ may draw: here both counters
\* wrap on the first packet sent and count up from there
InitCounters == {[sequence_number |-> 65535, timestamp |-> <<65535, 65000>>]}
InitSsrcs    == {<<43981, 4660>>}

ZeroStats == [packets_received |-> 0, packets_sent |-> 0, errors |-> 0]

\* the application after __init__, load_configuration and
\* initialize_components
SysInit ==
    /\ encoding \in {"pcm", "opus"}
    /\ has_opus \in (IF encoding = "opus" THEN BOOLEAN ELSE {FALSE})
    /\ tx_running = FALSE /\ tx_socket = "none"
    /\ \E c \in InitCounters :
          /\ sequence_number = c.sequence_number
          /\ timestamp = c.timestamp
    /\ ssrc \in InitSsrcs
    /\ payload_type = TransmitterPayloadType(encoding)
    /\ rx_running = FALSE /\ rx_socket = "none"
    /\ app_running = FALSE
    /\ stats = ZeroStats
    /\ audio_data = <<>>
    /\ dp_pc = "idle" /\ pending = <<>>
    /\ delivered = <<>> /\ handled = <<>> /\ wire = <<>>
    /\ send_false = 0
    /\ tx_init = [sequence_number |-> sequence_number, timestamp |-> timestamp]
    /\ rx_stopped = FALSE
    /\ st_pc = "none" /\ stats_seen = <<>> /\ handed = 0
    /\ stats_writers = {} /\ stats_readers = {}

\* AudionixConnect.start() up to the receive loop: statistics reset,
\* transmitter.start(), running = True, the statistics thread started,
\* receiver.start(handle_packet) with its socket setup.  tx_ok: socket
\* creation of the transmitter; rx_out: the receiver's socket setup.
AppStart ==
    /\ dp_pc \in {"idle", "returned", "raised"}
    /\ ~app_running
    /\ stats' = ZeroStats
    /\ stats_writers' = stats_writers \cup {"datapath"}
    /\ handed' = 0
    /\ send_false' = 0
    /\ \E tx_ok \in BOOLEAN, rx_out \in {"ok", "socket_fails", "bind_fails"} :
          /\ TransmitterStart(tx_ok)
          /\ IF ~tx_running'
             THEN \* transmitter.start() raised
                  /\ app_running' = FALSE
                  /\ dp_pc' = "raised"
                  /\ UNCHANGED <<rx_running, rx_socket>>
             ELSE IF rx_out # "ok"
             THEN \* receiver.start() raised
                  /\ rx_running' = FALSE
                  /\ rx_socket' = IF rx_out = "bind_fails" THEN "open" ELSE rx_socket
                  /\ app_running' = FALSE
                  /\ dp_pc' = "raised"
             ELSE /\ rx_running' = TRUE
                  /\ rx_socket' = "open"
                  /\ app_running' = TRUE
                  /\ dp_pc' = "check"
    /\ st_pc' = IF tx_running' /\ st_pc = "none" THEN "check" ELSE st_pc
    /\ UNCHANGED <<cfgVars, sequence_number, timestamp, ssrc, payload_type,
                   audio_data, pending, delivered, handled, wire, tx_init,
                   rx_stopped, stats_seen, stats_readers>>
    /\ UNCHANGED <<rtpVars, pcmVars, valVars, callVars>>

\* AudionixConnect.stop(), called from another thread or a signal handler;
\* its last step, _print_stats(), reads the counters
AppStop ==
    /\ app_running
    /\ app_running' = FALSE
    /\ ReceiverStop
    /\ TransmitterStop
    /\ stats_readers' = stats_readers \cup {"stop"}
    /\ UNCHANGED <<cfgVars, sequence_number, timestamp, ssrc, payload_type,
                   stats, audio_data, dpVars, delivered, handled, wire,
                   send_false, tx_init>>
    /\ UNCHANGED <<st_pc, stats_seen, stats_writers, handed>>
    /\ UNCHANGED <<rtpVars, pcmVars, valVars, callVars>>

\* a loop that goes on to recvfrom whatever the running flag says
LoopCheck_IgnoresFlag ==
    /\ dp_pc = "check"
    /\ dp_pc' = "recv"
    /\ UNCHANGED <<cfgVars, txVars, rxVars, appVars, pending, histVars>>
    /\ UNCHANGED <<rtpVars, pcmVars, valVars, callVars, statVars>>

\* _receive_loop: `while self.running` holds
LoopCheck ==
    /\ dp_pc = "check"
    /\ rx_running
    /\ dp_pc' = "recv"
    /\ UNCHANGED <<cfgVars, txVars, rxVars, appVars, pending, histVars>>
    /\ UNCHANGED <<rtpVars, pcmVars, valVars, callVars, statVars>>

\* _receive_loop: `while self.running` fails, start() returns
LoopExit ==
    /\ dp_pc = "check"
    /\ ~rx_running
    /\ dp_pc' = "returned"
    /\ UNCHANGED <<cfgVars, txVars, rxVars, appVars, pending, histVars>>
    /\ UNCHANGED <<rtpVars, pcmVars, valVars, callVars, statVars>>

\* recvfrom times out
RecvTimeout ==
    /\ dp_pc = "recv"
    /\ rx_socket = "open"
    /\ dp_pc' = "check"
    /\ UNCHANGED <<cfgVars, txVars, rxVars, appVars, pending, histVars>>
    /\ UNCHANGED <<rtpVars, pcmVars, valVars, callVars, statVars>>

\* recvfrom raises (the socket was closed by stop(), or another socket error)
RecvError ==
    /\ dp_pc = "recv"
    /\ dp_pc' = "check"
    /\ UNCHANGED <<cfgVars, txVars, rxVars, appVars, pending, histVars>>
    /\ UNCHANGED <<rtpVars, pcmVars, valVars, callVars, statVars>>

\* recvfrom returns a datagram
RecvData ==
    /\ dp_pc = "recv"
    /\ rx_socket = "open"
    /\ Len(delivered) < MaxPackets
    /\ \E data \in Datagrams :
          /\ pending' = data
          /\ delivered' = Append(delivered, data)
    /\ dp_pc' = "handle"
    /\ UNCHANGED <<cfgVars, txVars, rxVars, appVars, handled, wire, send_false,
                   tx_init, rx_stopped>>
    /\ UNCHANGED <<rtpVars, pcmVars, valVars, callVars, statVars>>

\* a loop in which a packet that cannot be decoded ends the receive loop
HandleBad_Propagates ==
    /\ dp_pc = "handle"
    /\ pending = <<>> \/ ~RTPPacket(pending).ok
    /\ dp_pc' = "raised"
    /\ pending' = <<>>
    /\ rx_running' = FALSE
    /\ UNCHANGED <<cfgVars, txVars, rx_socket, appVars, histVars>>
    /\ UNCHANGED <<rtpVars, pcmVars, valVars, callVars, statVars>>

\* _receive_loop: the datagram is empty, or RTPPacket(data) raises: the error
\* is logged and the loop goes on
HandleBad ==
    /\ dp_pc = "handle"
    /\ pending = <<>> \/ ~RTPPacket(pending).ok
    /\ dp_pc' = "check"
    /\ pending' = <<>>
    /\ UNCHANGED <<cfgVars, txVars, rxVars, appVars, histVars>>
    /\ UNCHANGED <<rtpVars, pcmVars, valVars, callVars, statVars>>

\* _receive_loop: packet = RTPPacket(data); handle_packet(packet) up to the
\* update of packets_sent.  Nothing in handle_packet's try block raises
\* (process_packet, prepare_payload and send catch their own errors), so its
\* except branch, the only writer of stats["errors"], is never taken.
HandlePacket ==
    /\ dp_pc = "handle"
    /\ pending # <<>>
    /\ RTPPacket(pending).ok
    /\ \E dec \in OpusDecoderOut, enc \in OpusEncoderOut, sendto_ok \in BOOLEAN :
          LET packet == RTPPacket(pending)
              audio  == ProcessorDecode(packet.payload, dec)
              output_payload ==
                  IF Len(audio) > 0 THEN ProcessorEncode(audio, enc) ELSE <<>>
              r == send(output_payload, packet.marker, sendto_ok)
          IN  /\ handled' = Append(handled, packet)
              /\ audio_data' = audio
              /\ IF output_payload # <<>>
                 THEN /\ sequence_number' = r.seqno
                      /\ timestamp' = r.tstamp
                      /\ wire' = wire \o [i \in 1..Len(r.sent) |->
                                    [src |-> Len(delivered), pkt |-> r.sent[i],
                                     payload |-> output_payload]]
                      /\ stats' = IF r.result
                                  THEN [stats EXCEPT !.packets_sent = @ + 1]
                                  ELSE stats
                      /\ send_false' = IF r.result THEN send_false
                                       ELSE send_false + 1
                      /\ stats_writers' = IF r.result
                                          THEN stats_writers \cup {"datapath"}
                                          ELSE stats_writers
                 ELSE UNCHANGED <<sequence_number, timestamp, wire, stats,
                                  send_false, stats_writers>>
    /\ handed' = handed + 1
    /\ dp_pc' = "count"
    /\ UNCHANGED <<cfgVars, tx_running, tx_socket, ssrc, payload_type, rxVars,
                   app_running, pending, delivered, tx_init, rx_stopped,
                   st_pc, stats_seen, stats_readers>>
    /\ UNCHANGED <<rtpVars, pcmVars, valVars, callVars>>

\* a handler that returns without counting the packet
Count_NoIncrement ==
    /\ dp_pc = "count"
    /\ dp_pc' = "check"
    /\ pending' = <<>>
    /\ UNCHANGED <<cfgVars, txVars, rxVars, appVars, histVars, statVars>>
    /\ UNCHANGED <<rtpVars, pcmVars, valVars, callVars>>

\* handle_packet: self.stats["packets_received"] += 1, and back to the loop
Count ==
    /\ dp_pc = "count"
    /\ stats' = [stats EXCEPT !.packets_received = @ + 1]
    /\ stats_writers' = stats_writers \cup {"datapath"}
    /\ dp_pc' = "check"
    /\ pending' = <<>>
    /\ UNCHANGED <<cfgVars, txVars, rxVars, app_running, audio_data, histVars,
                   st_pc, stats_seen, stats_readers, handed>>
    /\ UNCHANGED <<rtpVars, pcmVars, valVars, callVars>>

Next ==
    \/ AppStart
    \/ AppStop
    \/ LoopCheck
    \/ LoopExit
    \/ RecvTimeout
    \/ RecvError
    \/ RecvData
    \/ HandleBad
    \/ HandlePacket
    \/ Count

Init == SysInit /\ RtpOff /\ PcmOff /\ ValOff /\ CallOff

Spec == Init /\ [][Next]_vars

---------------------------------------------------------------------------
(* app.py: the statistics thread beside the data path and stop()           *)

MaxStatsPackets == 2     \* datagrams received while the thread is watched

\* the three counters of self.stats
Counters(st) ==
    [packets_received |-> st.packets_received,
     packets_sent     |-> st.packets_sent,
     errors           |-> st.errors]

\* _report_stats: `while self.running` holds
StatsCheck ==
    /\ st_pc = "check"
    /\ app_running
    /\ st_pc' = "print"
    /\ UNCHANGED <<cfgVars, txVars, rxVars, appVars, dpVars, histVars,
                   stats_seen, stats_writers, stats_readers, handed>>
    /\ UNCHANGED <<rtpVars, pcmVars, valVars, callVars>>

\* a statistics thread that clears the counters after printing them
StatsPrint_Resets ==
    /\ st_pc = "print"
    /\ stats_seen' = <<Counters(stats)>>
    /\ stats_readers' = stats_readers \cup {"statistics"}
    /\ stats' = ZeroStats
    /\ stats_writers' = stats_writers \cup {"statistics"}
    /\ st_pc' = "check"
    /\ UNCHANGED <<cfgVars, txVars, rxVars, app_running, audio_data, dpVars,
                   histVars, handed>>
    /\ UNCHANGED <<rtpVars, pcmVars, valVars, callVars>>

\* _report_stats: self._print_stats() reads the counters and logs them, then
\* time.sleep(10)
StatsPrint ==
    /\ st_pc = "print"
    /\ stats_seen' = <<Counters(stats)>>
    /\ stats_readers' = stats_readers \cup {"statistics"}
    /\ st_pc' = "check"
    /\ UNCHANGED <<cfgVars, txVars, rxVars, appVars, dpVars, histVars,
                   stats_writers, handed>>
    /\ UNCHANGED <<rtpVars, pcmVars, valVars, callVars>>

\* _report_stats: `while self.running` fails, the thread ends
StatsExit ==
    /\ st_pc = "check"
    /\ ~app_running
    /\ st_pc' = "none"
    /\ UNCHANGED <<cfgVars, txVars, rxVars, appVars, dpVars, histVars,
                   stats_seen, stats_writers, stats_readers, handed>>
    /\ UNCHANGED <<rtpVars, pcmVars, valVars, callVars>>

\* recvfrom returns one of the datagrams watched
StatsRecvData ==
    /\ Len(delivered) < MaxStatsPackets
    /\ RecvData

StatsNext ==
    \/ AppStart
    \/ AppStop
    \/ LoopCheck
    \/ LoopExit
    \/ RecvTimeout
    \/ RecvError
    \/ StatsRecvData
    \/ HandleBad
    \/ HandlePacket
    \/ Count
    \/ StatsCheck
    \/ StatsPrint
    \/ StatsExit

InitSTATS == SysInit /\ RtpOff /\ PcmOff /\ ValOff /\ CallOff

SpecSTATS == InitSTATS /\ [][StatsNext]_vars

---------------------------------------------------------------------------
(* The data-path thread under a fair scheduler: the thread that runs       *)
(* start() and the receive loop keeps taking steps (recvfrom returns       *)
(* within its 0.5 s timeout, the handler returns), while start() and       *)
(* stop() calls come from outside and may or may not happen                *)

MaxLivePackets == 2      \* datagrams received in a fair run

\* recvfrom returns a datagram in a fair run
LiveRecvData ==
    /\ Len(delivered) < MaxLivePackets
    /\ RecvData

\* the steps of the thread inside StreamReceiver.start
DataPath ==
    \/ LoopCheck
    \/ LoopExit
    \/ RecvTimeout
    \/ RecvError
    \/ LiveRecvData
    \/ HandleBad
    \/ HandlePacket
    \/ Count

LiveNext ==
    \/ AppStart
    \/ AppStop
    \/ DataPath

\* the data-path thread is inside the receive loop
InLoop == dp_pc \in {"check", "recv", "handle", "count"}

\* the thread in the loop moves on: every step of DataPath, and no step of
\* start() or stop(), changes dp_pc while the thread is in the loop, and in
\* every position of the loop some step of DataPath is possible
DataPathStep ==
    /\ InLoop
    /\ dp_pc' \in {"check", "recv", "handle", "count", "returned"}
    /\ dp_pc' # dp_pc

InitLIVE == SysInit /\ RtpOff /\ PcmOff /\ ValOff /\ CallOff

SpecLIVE == InitLIVE /\ [][LiveNext]_vars /\ WF_dp_pc(DataPathStep)

---------------------------------------------------------------------------
(* A long run of the transmitter: handle_packet's send step repeated on a  *)
(* started transmitter until the sequence number has gone once around      *)

MaxSeqSends == 65536     \* sends that return True in the long run
MaxFailedSends == 1      \* sends whose sendto fails in the long run

\* the payload of every packet of the long run: one PCM frame
SeqPayload == <<1, 0, 0, 255, 255, 127>>

\* transmitter.start() on the constructed transmitter
SeqStart ==
    /\ ~tx_running
    /\ tx_socket = "none"
    /\ TransmitterStart(TRUE)
    /\ UNCHANGED <<cfgVars, sequence_number, timestamp, ssrc, payload_type,
                   rxVars, appVars, dpVars, histVars>>
    /\ UNCHANGED <<rtpVars, pcmVars, valVars, callVars, statVars>>

\* success = self.transmitter.send(output_payload, packet.marker);
\* if success: packets_sent += 1.  wire keeps the latest datagram only.
SeqSend ==
    /\ tx_running
    /\ stats.packets_sent < MaxSeqSends
    /\ \E sendto_ok \in BOOLEAN :
          /\ ~sendto_ok => send_false < MaxFailedSends
          /\ LET r == send(SeqPayload, 0, sendto_ok)
             IN  /\ sequence_number' = r.seqno
                 /\ timestamp' = r.tstamp
                 /\ wire' = IF r.sent = <<>> THEN wire
                            ELSE <<[src |-> 0, pkt |-> r.sent[1],
                                    payload |-> SeqPayload]>>
                 /\ stats' = IF r.result
                             THEN [stats EXCEPT !.packets_sent = @ + 1]
                             ELSE stats
                 /\ send_false' = IF r.result THEN send_false
                                  ELSE send_false + 1
    /\ UNCHANGED <<cfgVars, tx_running, tx_socket, ssrc, payload_type, rxVars,
                   app_running, audio_data, dpVars, delivered, handled,
                   tx_init, rx_stopped>>
    /\ UNCHANGED <<rtpVars, pcmVars, valVars, callVars, statVars>>

SeqNext == SeqStart \/ SeqSend

InitSEQ == SysInit /\ encoding = "pcm" /\ RtpOff /\ PcmOff /\ ValOff /\ CallOff

SpecSEQ == InitSEQ /\ [][SeqNext]_vars

---------------------------------------------------------------------------
(* config.py: validation of the configuration data, and the factories of   *)
(* processor.py, transmitter.py and receiver.py                            *)
(*                                                                         *)
(* An address string is kept as the list of its dot-separated parts, which *)
(* is what v.split('.') returns; a part is a decimal numeral (num, with    *)
(* its value) or other text, on which int() raises ValueError.  A bitrate  *)
(* is absent from the data, or given as None, or given as an integer.      *)

Digits(n) == [num |-> TRUE, val |-> n]
Text      == [num |-> FALSE, val |-> 0]

BitrateAbsent == [given |-> FALSE, none |-> TRUE, val |-> 0]
BitrateNone   == [given |-> TRUE, none |-> TRUE, val |-> 0]
BitrateOf(n)  == [given |-> TRUE, none |-> FALSE, val |-> n]

CfgAddresses ==
    { <<Digits(239), Digits(192), Digits(0), Digits(1)>>,
      <<Digits(224), Digits(0), Digits(0), Digits(0)>>,
      <<Digits(239), Digits(255), Digits(255), Digits(255)>>,
      <<Digits(192), Digits(168), Digits(1), Digits(1)>>,
      <<Digits(223), Digits(255), Digits(255), Digits(255)>>,
      <<Digits(240), Digits(0), Digits(0), Digits(0)>>,
      <<Digits(239), Digits(999), Digits(0), Digits(1)>>,
      <<Digits(239), Text, Digits(0), Digits(1)>>,
      <<Text, Digits(1), Digits(1), Digits(1)>>,
      <<Digits(239), Digits(1), Digits(1)>>,
      <<Digits(239), Digits(1), Digits(1), Digits(1), Digits(1)>> }
CfgPorts     == {1023, 1024, 65535, 65536}
CfgFormats   == {"livewire", "aes67", "AES67", "dante"}
CfgEncodings == {"pcm", "opus", "PCM", "mp3"}
CfgBitrates  == {BitrateAbsent, BitrateNone, BitrateOf(0), BitrateOf(-1),
                 BitrateOf(128000)}

\* str.lower() on the names above
lower(name) ==
    CASE name = "PCM"   -> "pcm"
      [] name = "AES67" -> "aes67"
      [] OTHER          -> name

\* InputConfig.validate_port / OutputConfig.validate_port: TRUE when the
\* value is returned, FALSE when ValueError is raised
validate_port(v) == 1024 <= v /\ v <= 65535

\* InputConfig.validate_multicast(v), v the list v.split('.') gives
validate_multicast(v) ==
    IF Len(v) # 4 THEN FALSE
    ELSE IF ~v[1].num THEN FALSE
    ELSE 224 <= v[1].val /\ v[1].val <= 239

\* OutputConfig.validate_bitrate(v, values); enc is values.get('encoding'),
\* "None" when the encoding field did not validate
validate_bitrate(v, enc) == ~(enc = "opus" /\ (v.none \/ v.val <= 0))

\* Config(**config_data): the fields whose validation fails.  format and
\* encoding are Literal fields, matched exactly.  The bitrate validator runs
\* only when the data holds a bitrate (given as None included): a validator
\* is not called for a field that is left to its default.
ConfigErrors(raw) ==
    LET enc == IF raw.encoding \in {"pcm", "opus"} THEN raw.encoding ELSE "None"
    IN  {f \in {"multicast_address", "port", "format", "destination_port",
                "encoding", "bitrate"} :
            \/ f = "multicast_address" /\ ~validate_multicast(raw.multicast_address)
            \/ f = "port" /\ ~validate_port(raw.port)
            \/ f = "format" /\ raw.format \notin {"livewire", "aes67"}
            \/ f = "destination_port" /\ ~validate_port(raw.destination_port)
            \/ f = "encoding" /\ raw.encoding \notin {"pcm", "opus"}
            \/ f = "bitrate" /\ raw.bitrate.given
                             /\ ~validate_bitrate(raw.bitrate, enc)}

\* a factory that builds a PCM processor for a name it does not know
create_processor_DefaultsToPcm(name, bitrate) ==
    IF lower(name) = "opus"
    THEN [kind |-> "processor", name |-> name, raised |-> FALSE,
          class |-> "OpusProcessor",
          bitrate |-> IF bitrate.none THEN 128000 ELSE bitrate.val]
    ELSE [kind |-> "processor", name |-> name, raised |-> FALSE,
          class |-> "PCMProcessor"]

\* create_processor(encoding, bitrate): a bitrate of None becomes 128000
create_processor(name, bitrate) ==
    IF lower(name) = "pcm"
    THEN [kind |-> "processor", name |-> name, raised |-> FALSE,
          class |-> "PCMProcessor"]
    ELSE IF lower(name) = "opus"
    THEN [kind |-> "processor", name |-> name, raised |-> FALSE,
          class |-> "OpusProcessor",
          bitrate |-> IF bitrate.none THEN 128000 ELSE bitrate.val]
    ELSE [kind |-> "processor", name |-> name, raised |-> TRUE,
          class |-> "ValueError"]

\* create_transmitter(destination_address, destination_port, encoding)
create_transmitter(name) ==
    IF lower(name) = "pcm"
    THEN [kind |-> "transmitter", name |-> name, raised |-> FALSE,
          class |-> "PCMTransmitter"]
    ELSE IF lower(name) = "opus"
    THEN [kind |-> "transmitter", name |-> name, raised |-> FALSE,
          class |-> "OpusTransmitter"]
    ELSE [kind |-> "transmitter", name |-> name, raised |-> TRUE,
          class |-> "ValueError"]

\* create_receiver(multicast_address, port, format_type)
create_receiver(name) ==
    IF lower(name) = "livewire"
    THEN [kind |-> "receiver", name |-> name, raised |-> FALSE,
          class |-> "LivewireReceiver"]
    ELSE IF lower(name) = "aes67"
    THEN [kind |-> "receiver", name |-> name, raised |-> FALSE,
          class |-> "AES67Receiver"]
    ELSE [kind |-> "receiver", name |-> name, raised |-> TRUE,
          class |-> "ValueError"]

CfgInit ==
    /\ cfg_pc = "raw"
    /\ cfg_raw \in [multicast_address : CfgAddresses,
                    port : CfgPorts,
                    format : CfgFormats,
                    destination_port : {5005, 80},
                    encoding : CfgEncodings,
                    bitrate : CfgBitrates]
    /\ cfg_errors = {}
    /\ made = <<>>

\* load_config: Config(**config_data) returns the configuration
CfgAccept ==
    /\ cfg_pc = "raw"
    /\ ConfigErrors(cfg_raw) = {}
    /\ cfg_pc' = "valid"
    /\ UNCHANGED <<cfg_raw, cfg_errors, made>>
    /\ UNCHANGED <<sysVars, rtpVars, pcmVars, callVars>>

\* load_config: Config(**config_data) raises a validation error
CfgReject ==
    /\ cfg_pc = "raw"
    /\ ConfigErrors(cfg_raw) # {}
    /\ cfg_pc' = "invalid"
    /\ cfg_errors' = ConfigErrors(cfg_raw)
    /\ UNCHANGED <<cfg_raw, made>>
    /\ UNCHANGED <<sysVars, rtpVars, pcmVars, callVars>>

\* AudionixConnect.initialize_components on the loaded configuration: the
\* receiver, the processor, the transmitter, up to the first that raises
InitializeComponents ==
    /\ cfg_pc = "valid"
    /\ LET r == create_receiver(cfg_raw.format)
           p == create_processor(cfg_raw.encoding, cfg_raw.bitrate)
           t == create_transmitter(cfg_raw.encoding)
       IN  /\ made' = IF r.raised THEN <<r>>
                      ELSE IF p.raised THEN <<r, p>>
                      ELSE <<r, p, t>>
           /\ cfg_pc' = IF r.raised \/ p.raised \/ t.raised THEN "failed"
                        ELSE "built"
    /\ UNCHANGED <<cfg_raw, cfg_errors>>
    /\ UNCHANGED <<sysVars, rtpVars, pcmVars, callVars>>

\* a caller hands the names of the data to one of the factories directly
FactoryCall ==
    /\ cfg_pc = "raw"
    /\ cfg_pc' = "factory"
    /\ \E kind \in {"receiver", "processor", "transmitter"} :
          made' = <<CASE kind = "receiver" -> create_receiver(cfg_raw.format)
                      [] kind = "processor" ->
                            create_processor(cfg_raw.encoding, cfg_raw.bitrate)
                      [] OTHER -> create_transmitter(cfg_raw.encoding)>>
    /\ UNCHANGED <<cfg_raw, cfg_errors>>
    /\ UNCHANGED <<sysVars, rtpVars, pcmVars, callVars>>

CfgNext == CfgAccept \/ CfgReject \/ InitializeComponents \/ FactoryCall

InitCFG == CfgInit /\ RtpOff /\ PcmOff /\ SysOff /\ CallOff

SpecCFG == InitCFG /\ [][CfgNext]_vars

---------------------------------------------------------------------------
(* A client that calls the transmitter and the receiver directly: start,   *)
(* stop and send in any order.  receiver.start(handler) runs the receive   *)
(* loop in the calling thread (dp_pc); the client calls it on a receiver   *)
(* that is not running only once the previous call has returned.  No       *)
(* datagram arrives.  tx_call and rx_call describe the latest call: op,    *)
(* the call before it (prev), whether it raised, logged a warning, changed *)
(* the component's state, and for send its result and datagram.            *)

MaxDirectSends == 2      \* calls of send by the client

CallPayloads == {<<>>, <<1, 0, 0, 255, 255, 127>>}

\* transmitter.start(); socket_ok: socket.socket(...) succeeds
CallTxStart ==
    /\ \E socket_ok \in BOOLEAN :
          /\ TransmitterStart(socket_ok)
          /\ tx_call' = [NoCall EXCEPT
                !.op = "start", !.prev = tx_call.op,
                !.was_running = tx_running,
                !.warned = tx_running,
                !.raised = ~tx_running /\ ~socket_ok,
                !.changed = <<tx_running', tx_socket'>> # <<tx_running, tx_socket>>]
    /\ UNCHANGED <<cfgVars, sequence_number, timestamp, ssrc, payload_type,
                   rxVars, appVars, dpVars, histVars, rx_call>>
    /\ UNCHANGED <<rtpVars, pcmVars, valVars, statVars>>

\* transmitter.stop()
CallTxStop ==
    /\ TransmitterStop
    /\ tx_call' = [NoCall EXCEPT
          !.op = "stop", !.prev = tx_call.op,
          !.was_running = tx_running,
          !.changed = <<tx_running', tx_socket'>> # <<tx_running, tx_socket>>]
    /\ UNCHANGED <<cfgVars, sequence_number, timestamp, ssrc, payload_type,
                   rxVars, appVars, dpVars, histVars, rx_call>>
    /\ UNCHANGED <<rtpVars, pcmVars, valVars, statVars>>

\* transmitter.send(payload, marker)
CallTxSend ==
    /\ Len(wire) + send_false < MaxDirectSends
    /\ \E payload \in CallPayloads, marker \in {0, 1}, sendto_ok \in BOOLEAN :
          LET r == send(payload, marker, sendto_ok)
          IN  /\ sequence_number' = r.seqno
              /\ timestamp' = r.tstamp
              /\ wire' = wire \o [i \in 1..Len(r.sent) |->
                            [src |-> 0, pkt |-> r.sent[i], payload |-> payload]]
              /\ send_false' = IF r.result THEN send_false ELSE send_false + 1
              /\ tx_call' = [NoCall EXCEPT
                    !.op = "send", !.prev = tx_call.op,
                    !.was_running = tx_running,
                    !.raised = r.raised,
                    !.result = r.result,
                    !.sendto_ok = sendto_ok,
                    !.payload = payload,
                    !.sent = r.sent,
                    !.changed = <<r.seqno, r.tstamp>> # <<sequence_number, timestamp>>]
    /\ UNCHANGED <<cfgVars, tx_running, tx_socket, ssrc, payload_type, rxVars,
                   appVars, dpVars, delivered, handled, tx_init, rx_stopped,
                   rx_call>>
    /\ UNCHANGED <<rtpVars, pcmVars, valVars, statVars>>

\* receiver.start(handler) on a running receiver: a warning, nothing else
CallRxStartAgain ==
    /\ rx_running
    /\ rx_call' = [NoCall EXCEPT
          !.op = "start", !.prev = rx_call.op,
          !.was_running = TRUE, !.warned = TRUE]
    /\ UNCHANGED <<cfgVars, txVars, rxVars, appVars, dpVars, histVars, tx_call>>
    /\ UNCHANGED <<rtpVars, pcmVars, valVars, statVars>>

\* a start that does not take back running = True when the socket setup fails
CallRxStart_StaysRunning ==
    /\ ~rx_running
    /\ dp_pc \in {"idle", "returned", "raised"}
    /\ \E rx_out \in {"ok", "socket_fails", "bind_fails"} :
          /\ rx_running' = TRUE
          /\ rx_socket' = IF rx_out = "socket_fails" THEN rx_socket ELSE "open"
          /\ dp_pc' = IF rx_out = "ok" THEN "check" ELSE "raised"
          /\ rx_call' = [NoCall EXCEPT
                !.op = "start", !.prev = rx_call.op,
                !.raised = (rx_out # "ok"),
                !.changed = <<rx_running', rx_socket'>> # <<rx_running, rx_socket>>]
    /\ UNCHANGED <<cfgVars, txVars, appVars, pending, histVars, tx_call>>
    /\ UNCHANGED <<rtpVars, pcmVars, valVars, statVars>>

\* receiver.start(handler) on a receiver that is not running, up to the
\* receive loop; rx_out: the outcome of the socket setup
CallRxStart ==
    /\ ~rx_running
    /\ dp_pc \in {"idle", "returned", "raised"}
    /\ \E rx_out \in {"ok", "socket_fails", "bind_fails"} :
          /\ rx_running' = (rx_out = "ok")
          /\ rx_socket' = IF rx_out = "socket_fails" THEN rx_socket ELSE "open"
          /\ dp_pc' = IF rx_out = "ok" THEN "check" ELSE "raised"
          /\ rx_call' = [NoCall EXCEPT
                !.op = "start", !.prev = rx_call.op,
                !.raised = (rx_out # "ok"),
                !.changed = <<rx_running', rx_socket'>> # <<rx_running, rx_socket>>]
    /\ UNCHANGED <<cfgVars, txVars, appVars, pending, histVars, tx_call>>
    /\ UNCHANGED <<rtpVars, pcmVars, valVars, statVars>>

\* receiver.stop()
CallRxStop ==
    /\ ReceiverStop
    /\ rx_call' = [NoCall EXCEPT
          !.op = "stop", !.prev = rx_call.op,
          !.was_running = rx_running,
          !.changed = <<rx_running', rx_socket'>> # <<rx_running, rx_socket>>]
    /\ UNCHANGED <<cfgVars, txVars, appVars, dpVars, delivered, handled, wire,
                   send_false, tx_init, tx_call>>
    /\ UNCHANGED <<rtpVars, pcmVars, valVars, statVars>>

CallNext ==
    \/ CallTxStart
    \/ CallTxStop
    \/ CallTxSend
    \/ CallRxStartAgain
    \/ CallRxStart
    \/ CallRxStop
    \/ LoopCheck
    \/ LoopExit
    \/ RecvTimeout
    \/ RecvError

InitCALL == SysInit /\ ~has_opus /\ RtpOff /\ PcmOff /\ ValOff /\ CallOff

SpecCALL == InitCALL /\ [][CallNext]_vars

---------------------------------------------------------------------------
(* Properties                                                              *)

AllSamples(frames) ==
    {<<i, c>> : i \in 1..Len(frames), c \in 1..CHANNELS}

\* C3: process_packet sign-extends every 3-byte sample: each decoded integer
\* lies in [-2^23, 2^23 - 1] (the normalized sample in [-1.0, 1.0)), and a
\* sample whose top bit is set decodes to a negative value.
C3_SignExtended ==
    (pcm_pc = "decoded" /\ pcm_src = <<>>) =>
        \A p \in AllSamples(pcm_frames) :
            LET k   == pcm_frames[p[1]][p[2]]
                top == pcm_payload[(p[1] - 1) * bytes_per_sample * CHANNELS
                                   + (p[2] - 1) * bytes_per_sample + 3]
            IN  /\ -FullScale <= k
                /\ k <= FullScale - 1
                /\ (top >= 128 => k < 0)

\* C4: prepare_payload followed by process_packet recovers every sample of
\* [-1.0, 1.0] within one quantization step: the decoded integer differs
\* from the scaled integer that was encoded by at most 1, for negative as
\* well as non-negative samples.
C4_RoundTrip ==
    (pcm_pc = "decoded" /\ pcm_src # <<>>) =>
        /\ Len(pcm_frames) = Len(pcm_src)
        /\ \A p \in AllSamples(pcm_src) :
              LET s == ScaleToInt(pcm_src[p[1]][p[2]])
                  d == pcm_frames[p[1]][p[2]]
              IN  d - s \in {-1, 0, 1}

\* C1: send advances the sequence number and the timestamp only when it
\* returns True: after any sequence of calls, sequence_number = (initial +
\* number of successful calls) mod 65536 and timestamp = (initial + 960 *
\* number of successful calls) mod 2^32.  (wire holds one entry per call of
\* send that returned True.)
C1_AdvanceOnlyOnSuccess ==
    /\ sequence_number = (tx_init.sequence_number + Len(wire)) % 65536
    /\ timestamp = Add32(tx_init.timestamp, SamplesPerFrame * Len(wire))

\* C2: a packet whose send returned False is counted in the errors counter:
\* whenever handle_packet is not in progress, errors is at least the number
\* of send calls that returned False since the statistics were reset.
C2_FalseSendCounted ==
    dp_pc \in {"check", "recv", "returned"} => stats.errors >= send_false

\* C5: the payload of every received packet is decoded by the decoder of the
\* input format, which is linear PCM for both livewire and aes67, whatever
\* the output encoding: the frame buffer handle_packet works on is the PCM
\* decoding of the packet's payload.
C5_InputDecoder ==
    dp_pc = "count" =>
        audio_data = process_packet(handled[Len(handled)].payload)

\* C6: a datagram that cannot be decoded never ends the receive loop: the
\* loop goes on to the next datagram with the receiver's state unchanged, a
\* well-formed datagram is decoded and passed to the handler whatever came
\* before it, and the loop is left only when the running flag is cleared.
C6_LoopSurvives ==
    [][ /\ (dp_pc = "handle" /\ dp_pc' # "handle") =>
              /\ rx_running' = rx_running
              /\ rx_socket' = rx_socket
              /\ IF Len(pending) >= 12
                 THEN /\ dp_pc' = "count"
                      /\ handled' = Append(handled, RTPPacket(pending))
                 ELSE /\ dp_pc' = "check"
                      /\ handled' = handled
        /\ (dp_pc = "check" /\ dp_pc' # "check") =>
              IF rx_running THEN dp_pc' = "recv" ELSE dp_pc' = "returned"
      ]_vars

\* C6 witness: two malformed datagrams in a row, then a well-formed one that
\* reached the handler, in one run of the loop
C6_Witness ==
    /\ Len(delivered) = 3
    /\ Len(delivered[1]) < 12
    /\ Len(delivered[2]) < 12
    /\ Len(delivered[3]) >= 12
    /\ dp_pc = "count"
    /\ Len(handled) = 1
    /\ handled[1].payload = SliceFrom(delivered[3], 12)
    /\ ~rx_stopped

\* C7 as stated: once stop() has been called on the receiver, it is never
\* Running again.
C7_StoppedIsTerminal == rx_stopped => ~rx_running

\* C7 as amended: stop() leaves the receiver not running with its socket
\* closed, and a stopped receiver becomes Running again only by a call of
\* start(), which opens a new socket and enters the receive loop.
C7_StoppedUntilRestart ==
    [][ /\ (app_running /\ ~app_running') =>
              /\ rx_stopped'
              /\ ~rx_running'
              /\ rx_socket' # "open"
        /\ (rx_stopped /\ ~rx_running /\ rx_running') =>
              /\ dp_pc \in {"returned", "raised"}
              /\ dp_pc' = "check"
              /\ rx_socket' = "open"
      ]_vars

\* C7 witness: a receiver that was stopped is receiving again
C7_Witness ==
    /\ rx_stopped
    /\ rx_running
    /\ rx_socket = "open"
    /\ dp_pc = "recv"

\* C8: every packet sent carries the marker bit of the datagram that
\* produced it, and the low seven bits of its second byte are the
\* transmitter's payload type.
C8_MarkerPropagated ==
    \A i \in 1..Len(wire) :
        LET out   == wire[i].pkt
            input == delivered[wire[i].src]
        IN  /\ out[2] \div 128 = input[2] \div 128
            /\ out[2] % 128 = payload_type
            /\ payload_type = TransmitterPayloadType(encoding)

\* C8 witness: a packet with marker 0 and a packet with marker 1 were sent
C8_Witness ==
    \E i, j \in 1..Len(wire) :
        /\ wire[i].pkt[2] \div 128 = 0
        /\ wire[j].pkt[2] \div 128 = 1
        /\ delivered[wire[j].src][2] = 255

\* C9: a buffer of at least 12 bytes, decoded and rebuilt by the
\* transmitter's packet builder from the decoded fields, decodes to the same
\* marker, payload type, sequence number, timestamp, ssrc and payload (the
\* CSRC list is dropped: the rebuilt packet has CSRC count 0).
C9_DecodeEncodeRoundTrip ==
    rtp_pc = "done" =>
        /\ rtp_back.ok
        /\ rtp_back.marker = rtp_pkt.marker
        /\ rtp_back.payload_type = rtp_pkt.payload_type
        /\ rtp_back.sequence_number = rtp_pkt.sequence_number
        /\ rtp_back.timestamp = rtp_pkt.timestamp
        /\ rtp_back.ssrc = rtp_pkt.ssrc
        /\ rtp_back.payload = rtp_pkt.payload
        /\ rtp_back.csrc_count = 0
        /\ rtp_back.sequence_number = rtp_buf[3] * 256 + rtp_buf[4]
        /\ rtp_back.payload = SliceFrom(rtp_buf, 12 + 4 * (rtp_buf[1] % 16))

\* C9 witness: a round trip of a packet with the marker set, a CSRC entry, a
\* sequence number whose two bytes differ and a payload
C9_Witness ==
    /\ rtp_pc = "done"
    /\ rtp_pkt.marker = 1
    /\ rtp_pkt.csrc_count = 1
    /\ rtp_pkt.sequence_number = 258
    /\ Len(rtp_pkt.payload) = 5

\* C10: decoding rejects every buffer shorter than 12 bytes, reading no
\* header field, and accepts every buffer of 12 bytes or more.
C10_LengthCheck ==
    rtp_pc # "input" =>
        /\ (Len(rtp_buf) < 12 => rtp_pc = "rejected" /\ rtp_pkt = [ok |-> FALSE])
        /\ (Len(rtp_buf) >= 12 => rtp_pc # "rejected" /\ rtp_pkt.ok)

\* C10 witness: an 11-byte buffer was rejected
C10_Witness ==
    /\ rtp_pc = "rejected"
    /\ Len(rtp_buf) = 11

\* C11: after 65536 sends that returned True the sequence number is the one
\* the transmitter had before them, and it is in 0..65535 in every state.
C11_SequenceWraps ==
    /\ sequence_number \in 0..65535
    /\ stats.packets_sent = 65536 =>
            sequence_number = tx_init.sequence_number

\* C12: every send that returns True moves the timestamp on by exactly 960
\* mod 2^32 whatever the length of its payload, so the timestamps of two
\* packets transmitted one after the other differ by exactly 960 mod 2^32.
C12_TimestampStep ==
    \A i \in 1..(Len(wire) - 1) :
        RTPPacket(wire[i + 1].pkt).timestamp =
            Add32(RTPPacket(wire[i].pkt).timestamp, 960)

\* C13: a datagram too short to be decoded is dropped and counted: while the
\* application has not been stopped and no datagram is being processed,
\* errors is at least the number of such datagrams received since the
\* statistics were reset at start.
C13_BadDatagramCounted ==
    (~rx_stopped /\ dp_pc \in {"check", "recv"}) =>
        stats.errors >=
            Cardinality({i \in 1..Len(delivered) : Len(delivered[i]) < 12})

\* C14: validation rejects every configuration whose encoding is opus and
\* whose bitrate is absent, None, zero or negative, and no component is made
\* from it; a pcm configuration is not rejected for an absent bitrate.
C14_OpusNeedsBitrate ==
    cfg_pc \in {"valid", "invalid", "built"} =>
        /\ ( /\ cfg_raw.encoding = "opus"
             /\ (~cfg_raw.bitrate.given \/ cfg_raw.bitrate.none
                    \/ cfg_raw.bitrate.val <= 0) )
              => (cfg_pc = "invalid" /\ made = <<>>)
        /\ (cfg_raw.encoding = "pcm" /\ ~cfg_raw.bitrate.given)
              => "bitrate" \notin cfg_errors

\* a dotted quad whose first octet is 224..239 and whose other octets are
\* 0..255
IsMulticastIPv4(v) ==
    /\ Len(v) = 4
    /\ \A i \in 1..4 : v[i].num
    /\ 224 <= v[1].val /\ v[1].val <= 239
    /\ \A i \in 2..4 : 0 <= v[i].val /\ v[i].val <= 255

\* C15: validation accepts the multicast_address exactly when it is a
\* dotted-quad IPv4 address in 224.0.0.0 .. 239.255.255.255.
C15_MulticastOnly ==
    cfg_pc \in {"valid", "invalid", "built"} =>
        ( "multicast_address" \notin cfg_errors
            <=> IsMulticastIPv4(cfg_raw.multicast_address) )

\* C20 as stated: a factory returns a component only for the names pcm and
\* opus (livewire and aes67 for a receiver), and raises for any other name.
C20_OnlyExactNames ==
    \A i \in 1..Len(made) :
        ~made[i].raised <=>
            made[i].name \in (IF made[i].kind = "receiver"
                              THEN {"livewire", "aes67"}
                              ELSE {"pcm", "opus"})

\* C20 as amended: a factory compares the lower-cased name, so it returns a
\* component for pcm, opus, livewire, aes67 in any letter case (PCM, AES67)
\* and raises for every other name, at construction; the components of a
\* loaded configuration are built only from the exact names.
C20_UnknownNameRejected ==
    /\ \A i \in 1..Len(made) :
          ~made[i].raised <=>
              made[i].name \in (IF made[i].kind = "receiver"
                                THEN {"livewire", "aes67", "AES67"}
                                ELSE {"pcm", "opus", "PCM"})
    /\ cfg_pc \in {"valid", "built"} =>
          /\ cfg_raw.encoding \in {"pcm", "opus"}
          /\ cfg_raw.format \in {"livewire", "aes67"}
    /\ cfg_pc = "built" =>
          /\ Len(made) = 3
          /\ \A i \in 1..3 : ~made[i].raised
    /\ cfg_pc # "failed"

\* C20 witness: create_processor was called with an unknown name and raised
C20_Witness ==
    /\ cfg_pc = "factory"
    /\ made[1].kind = "processor"
    /\ made[1].name = "mp3"
    /\ made[1].raised

\* C16: a second stop() on a stopped transmitter or receiver raises no
\* error, changes no state (the instance stays not running, its socket not
\* open) and logs a warning.
C16_StopIdempotent ==
    /\ (tx_call.op = "stop" /\ tx_call.prev = "stop") =>
          /\ ~tx_call.raised
          /\ ~tx_call.changed
          /\ ~tx_running /\ tx_socket # "open"
          /\ tx_call.warned
    /\ (rx_call.op = "stop" /\ rx_call.prev = "stop") =>
          /\ ~rx_call.raised
          /\ ~rx_call.changed
          /\ ~rx_running /\ rx_socket # "open"
          /\ rx_call.warned

\* C17: send never raises; on a transmitter that is not running (before
\* start() or after stop()) it returns False and sends no datagram; it
\* returns False when sendto fails; it returns True only when the
\* transmitter was running and the datagram was given to the socket.
C17_SendNeverRaises ==
    tx_call.op = "send" =>
        /\ ~tx_call.raised
        /\ ~tx_call.was_running =>
              /\ ~tx_call.result
              /\ tx_call.sent = <<>>
              /\ ~tx_call.changed
        /\ (tx_call.was_running /\ ~tx_call.sendto_ok) =>
              (~tx_call.result /\ tx_call.sent = <<>>)
        /\ tx_call.result =>
              /\ tx_call.was_running
              /\ tx_call.sendto_ok
              /\ Len(tx_call.sent) = 1
              /\ SliceFrom(tx_call.sent[1], 12) = tx_call.payload

\* C17 witness: a send while running returned True, the transmitter was
\* stopped, and the next send returned False and sent nothing
C17_Witness ==
    /\ tx_call.op = "send"
    /\ tx_call.prev = "stop"
    /\ tx_socket = "closed"
    /\ ~tx_call.result
    /\ Len(wire) = 1
    /\ send_false = 1

\* C18: without Opus support every Opus decode gives an empty frame buffer
\* and every Opus encode gives empty bytes; the application then sends
\* nothing for the packet, leaves the transmitter's sequence number and
\* timestamp where they were, counts the packet as received and goes on with
\* the next one.
C18_OpusUnavailable ==
    (encoding = "opus" /\ ~has_opus) =>
        /\ \A dec \in OpusDecoderOut, d \in Datagrams :
              opus_process_packet(SliceFrom(d, 12), dec) = <<>>
        /\ \A enc \in OpusEncoderOut :
              opus_prepare_payload(<<<<1, -1>>, <<8388607, 0>>>>, enc) = <<>>
        /\ dp_pc = "count" => audio_data = <<>>
        /\ wire = <<>>
        /\ send_false = 0
        /\ sequence_number = tx_init.sequence_number
        /\ timestamp = tx_init.timestamp
        /\ ~rx_stopped =>
              /\ dp_pc = "raised" => delivered = <<>>
              /\ stats.packets_received =
                    Len(handled) - (IF dp_pc = "count" THEN 1 ELSE 0)

\* C18 witness: without Opus support two well-formed packets were handled
\* one after the other and counted, the second with a payload
C18_Witness ==
    /\ encoding = "opus"
    /\ ~has_opus
    /\ ~rx_stopped
    /\ Len(handled) = 2
    /\ Len(handled[2].payload) > 0
    /\ stats.packets_received = 2
    /\ dp_pc = "recv"

\* C19: every packet sent carries payload type 97 when the encoding is pcm
\* and 98 when it is opus, whatever the payload type of the datagram it came
\* from, with version 2, padding 0, extension 0 and CSRC count 0, and it is
\* the 12 header bytes followed by the payload given to send.
C19_OutputHeader ==
    /\ payload_type = (IF encoding = "pcm" THEN 97 ELSE 98)
    /\ \A i \in 1..Len(wire) :
          LET out == wire[i].pkt
          IN  /\ out[2] % 128 = (IF encoding = "pcm" THEN 97 ELSE 98)
              /\ out[1] \div 64 = 2
              /\ (out[1] \div 32) % 2 = 0
              /\ (out[1] \div 16) % 2 = 0
              /\ out[1] % 16 = 0
              /\ Len(out) = 12 + Len(wire[i].payload)
              /\ SliceFrom(out, 12) = wire[i].payload

\* C19 witness: an opus transmitter sent a packet for a datagram of payload
\* type 127, and a packet for a datagram of payload type 96
C19_Witness ==
    /\ encoding = "opus"
    /\ \E i, j \in 1..Len(wire) :
          /\ delivered[wire[i].src][2] % 128 = 127
          /\ delivered[wire[j].src][2] % 128 = 96
          /\ wire[i].pkt[2] % 128 = 98
          /\ Len(wire[i].pkt) = 14

\* C21: process_packet of a payload of n bytes gives exactly n div 6 frames
\* of 2 samples; sample c of frame i is read from the 3 bytes at offset
\* 6(i-1) + 3(c-1), low byte first; the last n mod 6 bytes are dropped.
C21_WholeFramesOnly ==
    (pcm_pc = "decoded" /\ pcm_src = <<>>) =>
        /\ Len(pcm_frames) = Len(pcm_payload) \div 6
        /\ \A i \in 1..Len(pcm_frames) :
              /\ Len(pcm_frames[i]) = 2
              /\ \A c \in 1..2 :
                    LET o == 6 * (i - 1) + 3 * (c - 1)
                    IN  pcm_frames[i][c] % 16777216 =
                            pcm_payload[o + 1] + 256 * pcm_payload[o + 2]
                                + 65536 * pcm_payload[o + 3]

\* C21 witness: a payload of 11 bytes decoded to one frame
C21_Witness ==
    /\ pcm_pc = "decoded"
    /\ pcm_src = <<>>
    /\ Len(pcm_payload) = 11
    /\ Len(pcm_frames) = 1

\* C22: a buffer of 12 bytes or more always decodes; the csrc list holds the
\* complete 4-byte entries that are present, min(csrc_count, (len - 12) div
\* 4) of them in order, and the payload is the bytes from offset
\* 12 + 4 * csrc_count on, empty when that offset is not inside the buffer.
C22_CsrcTruncated ==
    (rtp_pc # "input" /\ Len(rtp_buf) >= 12) =>
        LET cc      == rtp_buf[1] % 16
            fit     == (Len(rtp_buf) - 12) \div 4
            entries == IF cc < fit THEN cc ELSE fit
        IN  /\ rtp_pkt.ok
            /\ rtp_pkt.csrc_count = cc
            /\ Len(rtp_pkt.csrc) = entries
            /\ \A j \in 1..entries :
                  rtp_pkt.csrc[j] =
                      << rtp_buf[12 + 4 * (j - 1) + 1] * 256
                            + rtp_buf[12 + 4 * (j - 1) + 2],
                         rtp_buf[12 + 4 * (j - 1) + 3] * 256
                            + rtp_buf[12 + 4 * (j - 1) + 4] >>
            /\ rtp_pkt.payload =
                  [k \in 1..(IF Len(rtp_buf) > 12 + 4 * cc
                             THEN Len(rtp_buf) - (12 + 4 * cc) ELSE 0) |->
                      rtp_buf[12 + 4 * cc + k]]

\* C22 witness: 15 CSRC entries announced, 9 bytes after the header: two
\* entries decoded, empty payload
C22_Witness ==
    /\ rtp_pc = "decoded"
    /\ Len(rtp_buf) = 21
    /\ rtp_pkt.csrc_count = 15
    /\ Len(rtp_pkt.csrc) = 2
    /\ rtp_pkt.csrc[2] = <<1286, 1800>>
    /\ rtp_pkt.payload = <<>>

\* C23: when the socket setup of receiver.start fails, the error reaches the
\* caller, the receive loop is not entered, no packet reaches the handler
\* and the receiver is not running once start has returned.
C23_StartFailurePropagates ==
    (rx_call.op = "start" /\ rx_call.raised) =>
        /\ ~rx_running
        /\ dp_pc = "raised"
        /\ pending = <<>>
        /\ handled = <<>>

\* C23 witness: bind failed on the socket that start had created
C23_Witness ==
    /\ rx_call.op = "start"
    /\ rx_call.raised
    /\ rx_socket = "open"
    /\ ~rx_running

\* C27: once AudionixConnect.start has raised, no component is left running:
\* the application flag is false, the receiver is not running and the
\* transmitter is stopped with its socket closed.
C27_NothingLeftRunning ==
    dp_pc = "raised" =>
        /\ ~app_running
        /\ ~rx_running
        /\ ~tx_running
        /\ tx_socket # "open"

\* the well-formed datagrams of a run, decoded, in arrival order
DecodedInOrder(datagrams) ==
    LET good == SelectSeq(datagrams, LAMBDA d : d # <<>> /\ RTPPacket(d).ok)
    IN  [i \in 1..Len(good) |-> RTPPacket(good[i])]

\* C25: packets are handled one at a time in arrival order (the packets
\* handled are the well-formed datagrams received, in order, and only the
\* datagram just received may still wait for its handler); transmitted
\* packets leave in the arrival order of their datagrams, at most one per
\* datagram, with a sequence number that moves forward (mod 65536) from one
\* transmitted packet to the next, and no more send attempts than packets
\* handled since the last start.
C25_OneAtATimeInOrder ==
    LET all == DecodedInOrder(delivered)
    IN  /\ Len(handled) <= Len(all)
        /\ handled = SubSeq(all, 1, Len(handled))
        /\ Len(handled) < Len(all) =>
               /\ dp_pc = "handle"
               /\ pending = delivered[Len(delivered)]
               /\ Len(all) = Len(handled) + 1
        /\ dp_pc \in {"handle", "count"} => pending = delivered[Len(delivered)]
        /\ \A i \in 1..Len(wire) : wire[i].src \in 1..Len(delivered)
        /\ \A i \in 1..(Len(wire) - 1) :
               /\ wire[i].src < wire[i + 1].src
               /\ (RTPPacket(wire[i + 1].pkt).sequence_number
                     - RTPPacket(wire[i].pkt).sequence_number) % 65536
                        \in 1..(wire[i + 1].src - wire[i].src)
        /\ stats.packets_sent + send_false <= handed

\* C25 witness: three datagrams handled, the first and the third transmitted
\* with sequence numbers 65535 and 1, the second one's send attempt failed
C25_Witness ==
    /\ Len(handled) = 3
    /\ Len(wire) = 2
    /\ wire[1].src = 1 /\ wire[2].src = 3
    /\ RTPPacket(wire[1].pkt).sequence_number = 65535
    /\ RTPPacket(wire[2].pkt).sequence_number = 1
    /\ send_false = 1
    /\ dp_pc = "check"

\* C29: since the last start, packets_received + errors is the number of
\* packets handed to handle_packet whose call has completed (every packet
\* handed, less the one whose call is still in progress), each completed
\* call having added one to exactly one of the two counters, and
\* packets_sent never exceeds the number of packets handed.
C29_CountersMatchHandled ==
    /\ dp_pc # "count" =>
           stats.packets_received + stats.errors = handed
    /\ dp_pc = "count" =>
           stats.packets_received + stats.errors = handed - 1
    /\ stats.packets_sent <= handed
    /\ handed <= Len(handled)

\* C29 witness: a restarted application that has handled one packet since
\* the restart and two before it, the last one without a packet sent
C29_Witness ==
    /\ rx_stopped
    /\ app_running
    /\ Len(handled) = 3
    /\ handed = 1
    /\ stats.packets_received = 1
    /\ stats.packets_sent = 0
    /\ dp_pc = "check"

\* C26: the counters are written by the data-path thread only; the
\* statistics thread and stop() only read them: no step of the statistics
\* thread and no stop() changes a counter, so no two writes are concurrent.
C26_SingleWriter ==
    /\ [](/\ stats_writers \subseteq {"datapath"}
          /\ stats_readers \subseteq {"statistics", "stop"})
    /\ [][stats' # stats =>
             /\ stats_seen' = stats_seen
             /\ stats_readers' = stats_readers
             /\ st_pc \in {"check", "print"} => st_pc' = st_pc
             /\ ~(app_running /\ ~app_running')
             /\ stats_writers' = stats_writers \cup {"datapath"}]_vars

\* C26 witness: the data path has counted a packet sent, the statistics
\* thread has printed counters in the middle of that packet's handling and
\* stop() has read them too
C26_Witness ==
    /\ stats_writers = {"datapath"}
    /\ stats_readers = {"statistics", "stop"}
    /\ stats.packets_sent = 1
    /\ stats.packets_received = 1
    /\ stats_seen = <<[packets_received |-> 0, packets_sent |-> 1,
                       errors |-> 0]>>

\* C28: whatever the statistics thread prints, packets_sent does not exceed
\* packets_received.
C28_SentAtMostReceived ==
    stats_seen # <<>> =>
        stats_seen[1].packets_sent <= stats_seen[1].packets_received

===========================================================================
